---- MODULE Spec2Model ----
(***************************************************************************)
(* Unified Social Credit Code validator (validate_gui.py): the structural  *)
(* check, the base-31 weighted check character, the diagnosis of a         *)
(* rejected code, and the batch entry point with its tokenizer.            *)
(*                                                                         *)
(* A string is a sequence of characters.  A printable ASCII character is   *)
(* the one-character string itself; any other code point is written        *)
(* "U+XXXX".  Sequences are 1-based: Python's code[i] is code[i + 1] here. *)
(***************************************************************************)
EXTENDS Integers, Sequences, FiniteSets

\* candidate  the string given to the validator
\* orig       the starting code the candidate was edited from
\* editPos    the position (from 1) of the replaced character, 0 if none
\* valid      what is_credit_code returned for the candidate
\* parity     what get_parity_bit returned for the candidate
\* reason     what get_error_reason returned for the candidate
\* text       the text given to validate_credit_codes
\* typed, pasted  the characters typed and the codes pasted into text
\* results    what validate_credit_codes returned for text
VARIABLES candidate, orig, editPos, valid, parity, reason, text, typed, pasted, results

vars == <<candidate, orig, editPos, valid, parity, reason, text, typed, pasted, results>>

(***************************************************************************)
(* Bounds of the explored inputs.                                          *)
(***************************************************************************)
MaxAppend == 1
MaxDelete == 1
MaxTyped == 3
MaxPaste == 2

(***************************************************************************)
(* Characters.                                                             *)
(***************************************************************************)
Digits == {"0", "1", "2", "3", "4", "5", "6", "7", "8", "9"}

\* Decimal digits outside ASCII (Unicode category Nd): ARABIC-INDIC DIGIT
\* THREE and FULLWIDTH DIGIT ONE.
UnicodeDigits == {"U+0663", "U+FF11"}

\* str.isspace(): the characters str.strip() removes and \s matches.
Whitespace ==
    {"U+0009", "U+000A", "U+000B", "U+000C", "U+000D", "U+001C", "U+001D",
     "U+001E", "U+001F", " ", "U+0085", "U+00A0", "U+1680", "U+2000",
     "U+2001", "U+2002", "U+2003", "U+2004", "U+2005", "U+2006", "U+2007",
     "U+2008", "U+2009", "U+200A", "U+2028", "U+2029", "U+202F", "U+205F",
     "U+3000"}

\* The line boundaries of str.splitlines(), "\r\n" apart.
LineBreaks ==
    {"U+000A", "U+000B", "U+000C", "U+000D", "U+001C", "U+001D", "U+001E",
     "U+0085", "U+2028", "U+2029"}

\* str.upper() of one character, as a string: the letters of the explored
\* inputs, and U+00DF (sharp s), which upper-cases to two characters.
UpperOfLower == [c \in {"a", "d", "h", "i", "t"} |->
    CASE c = "a" -> "A" [] c = "d" -> "D" [] c = "h" -> "H"
      [] c = "i" -> "I" [] c = "t" -> "T"]

upper_char(c) ==
    IF c \in DOMAIN UpperOfLower THEN <<UpperOfLower[c]>>
    ELSE IF c = "U+00DF" THEN <<"S", "S">>
    ELSE <<c>>

RECURSIVE upper(_)
upper(s) == IF s = <<>> THEN <<>> ELSE upper_char(Head(s)) \o upper(Tail(s))

(***************************************************************************)
(* Constants of the standard.                                              *)
(***************************************************************************)
\* WEIGHT with its last two entries exchanged.
WEIGHT_Swapped == <<1, 3, 9, 27, 19, 26, 16, 17, 20, 29, 25, 13, 8, 24, 10, 28, 30>>

WEIGHT == <<1, 3, 9, 27, 19, 26, 16, 17, 20, 29, 25, 13, 8, 24, 10, 30, 28>>

BASE_CODE ==
    <<"0", "1", "2", "3", "4", "5", "6", "7", "8", "9", "A", "B", "C", "D",
      "E", "F", "G", "H", "J", "K", "L", "M", "N", "P", "Q", "R", "T", "U",
      "W", "X", "Y">>

\* `char in BASE_CODE` for a one-character string.
InBaseCode(char) == \E k \in 1..Len(BASE_CODE) : BASE_CODE[k] = char

\* {char: idx for idx, char in enumerate(BASE_CODE)}
CODE_INDEX_MAP ==
    [char \in {BASE_CODE[k] : k \in 1..Len(BASE_CODE)} |->
        CHOOSE idx \in 0..(Len(BASE_CODE) - 1) :
            /\ BASE_CODE[idx + 1] = char
            /\ \A j \in 0..(Len(BASE_CODE) - 1) : BASE_CODE[j + 1] = char => j <= idx]

\* The class written [0-9A-NPQRTUWXY]: I is not left out.
PatternClass_WithI ==
    Digits \cup {"A", "B", "C", "D", "E", "F", "G", "H", "I"}
           \cup {"J", "K", "L", "M", "N"}
           \cup {"P", "Q", "R", "T", "U", "W", "X", "Y"}

\* The character class [0-9A-HJ-NPQRTUWXY] of CREDIT_CODE_PATTERN.
PatternClass ==
    Digits \cup {"A", "B", "C", "D", "E", "F", "G", "H"}
           \cup {"J", "K", "L", "M", "N"}
           \cup {"P", "Q", "R", "T", "U", "W", "X", "Y"}

\* \d of a str pattern: any Unicode decimal digit.
PatternDigit == Digits \cup UnicodeDigits

\* ^[0-9A-HJ-NPQRTUWXY]{2}\d{6}[0-9A-HJ-NPQRTUWXY]{10}  on the first 18
\* characters.
PatternBody(s) ==
    /\ Len(s) >= 18
    /\ \A k \in 1..2 : s[k] \in PatternClass
    /\ \A k \in 3..8 : s[k] \in PatternDigit
    /\ \A k \in 9..18 : s[k] \in PatternClass

\* CREDIT_CODE_PATTERN.match(s): $ matches at the end of the string and
\* just before a newline that ends it.
CREDIT_CODE_PATTERN_match(s) ==
    /\ PatternBody(s)
    /\ \/ Len(s) = 18
       \/ Len(s) = 19 /\ s[19] = "U+000A"

(***************************************************************************)
(* Validation functions.                                                   *)
(***************************************************************************)
\* is_credit_code_simple without its length check.
is_credit_code_simple_NoLength(credit_code) ==
    CREDIT_CODE_PATTERN_match(credit_code)

is_credit_code_simple(credit_code) ==
    IF credit_code = <<>> \/ Len(credit_code) # 18 THEN FALSE
    ELSE CREDIT_CODE_PATTERN_match(credit_code)

\* The loop ending with result = total % 31.
RECURSIVE parity_loop_NoComplement(_, _, _)
parity_loop_NoComplement(credit_code, i, total) ==
    IF i = 17 THEN total % 31
    ELSE LET char == credit_code[i + 1]
         IN  IF char \notin DOMAIN CODE_INDEX_MAP THEN -1
             ELSE parity_loop_NoComplement(credit_code, i + 1,
                              total + CODE_INDEX_MAP[char] * WEIGHT[i + 1])

\* The loop of get_parity_bit from index i with the running total, and the
\* fold of 31 to 0 after it.
RECURSIVE parity_loop(_, _, _)
parity_loop(credit_code, i, total) ==
    IF i = 17
    THEN LET result == 31 - (total % 31)
         IN  IF result = 31 THEN 0 ELSE result
    ELSE LET char == credit_code[i + 1]
         IN  IF char \notin DOMAIN CODE_INDEX_MAP THEN -1
             ELSE parity_loop(credit_code, i + 1,
                              total + CODE_INDEX_MAP[char] * WEIGHT[i + 1])

get_parity_bit(credit_code) ==
    IF Len(credit_code) < 17 THEN -1
    ELSE parity_loop(credit_code, 0, 0)

\* is_credit_code without the comparison of the check character.
is_credit_code_NoChecksum(credit_code) ==
    is_credit_code_simple(credit_code) /\ get_parity_bit(credit_code) >= 0

is_credit_code(credit_code) ==
    IF ~is_credit_code_simple(credit_code) THEN FALSE
    ELSE LET parity_bit == get_parity_bit(credit_code)
         IN  IF parity_bit < 0 THEN FALSE
             ELSE upper(<<credit_code[18]>>) = <<BASE_CODE[parity_bit + 1]>>

\* The reasons get_error_reason returns.  "illegal" carries the set of
\* characters its message joins, "checksum" the expected check character.
Reason(kind, chars, expected) ==
    [kind |-> kind, chars |-> chars, expected |-> expected]

\* set(invalid_chars): the characters of code.upper() not in BASE_CODE.
invalid_chars(code) ==
    LET up == upper(code)
    IN  {up[k] : k \in {j \in 1..Len(up) : ~InBaseCode(up[j])}}

get_error_reason(code) ==
    IF code = <<>> \/ Len(code) # 18 THEN Reason("length", {}, "")
    ELSE IF ~is_credit_code_simple(code)
    THEN IF invalid_chars(code) # {}
         THEN Reason("illegal", invalid_chars(code), "")
         ELSE Reason("format", {}, "")
    ELSE LET parity_bit == get_parity_bit(code)
         IN  IF parity_bit >= 0
             THEN Reason("checksum", {}, BASE_CODE[parity_bit + 1])
             ELSE Reason("unknown", {}, "")

(***************************************************************************)
(* The batch entry point and its tokenizer.                                *)
(***************************************************************************)
\* codes_text.splitlines(): the lines scanned so far are returned in front,
\* line is the line being read.  "\r\n" is one boundary, and a boundary at
\* the very end opens no further line.
RECURSIVE splitlines_from(_, _)
splitlines_from(rest, line) ==
    IF rest = <<>> THEN (IF line = <<>> THEN <<>> ELSE <<line>>)
    ELSE IF Head(rest) \in LineBreaks
    THEN LET crlf == /\ Head(rest) = "U+000D"
                     /\ Len(rest) >= 2
                     /\ rest[2] = "U+000A"
             after == IF crlf THEN Tail(Tail(rest)) ELSE Tail(rest)
         IN  <<line>> \o splitlines_from(after, <<>>)
    ELSE splitlines_from(Tail(rest), Append(line, Head(rest)))

splitlines(codes_text) == splitlines_from(codes_text, <<>>)

\* The class without the full-width comma.
SplitClass_NoFullWidth(c) == c = "," \/ c \in Whitespace

\* The character class [,<U+FF0C>\s] of the pattern re.split is given.
SplitClass(c) == c = "," \/ c = "U+FF0C" \/ c \in Whitespace

RECURSIVE skip_run(_)
skip_run(rest) ==
    IF rest # <<>> /\ SplitClass(Head(rest)) THEN skip_run(Tail(rest)) ELSE rest

\* re.split(r'[,<U+FF0C>\s]+', line): the pieces between the maximal runs of
\* the class, the empty piece before a leading run and after a trailing run
\* included.
RECURSIVE re_split_from(_, _)
re_split_from(rest, piece) ==
    IF rest = <<>> THEN <<piece>>
    ELSE IF SplitClass(Head(rest))
    THEN <<piece>> \o re_split_from(skip_run(rest), <<>>)
    ELSE re_split_from(Tail(rest), Append(piece, Head(rest)))

re_split(line) == re_split_from(line, <<>>)

RECURSIVE lstrip(_)
lstrip(s) == IF s # <<>> /\ Head(s) \in Whitespace THEN lstrip(Tail(s)) ELSE s

RECURSIVE rstrip(_)
rstrip(s) ==
    IF s # <<>> /\ s[Len(s)] \in Whitespace
    THEN rstrip(SubSeq(s, 1, Len(s) - 1)) ELSE s

\* str.strip()
strip(s) == rstrip(lstrip(s))

\* [code.strip() for code in re.split(...) if code.strip()]
RECURSIVE line_codes_of(_)
line_codes_of(pieces) ==
    IF pieces = <<>> THEN <<>>
    ELSE IF strip(Head(pieces)) # <<>>
    THEN <<strip(Head(pieces))>> \o line_codes_of(Tail(pieces))
    ELSE line_codes_of(Tail(pieces))

\* for line in codes_text.splitlines(): codes.extend(line_codes)
RECURSIVE extend_codes(_, _)
extend_codes(lines, codes) ==
    IF lines = <<>> THEN codes
    ELSE extend_codes(Tail(lines), codes \o line_codes_of(re_split(Head(lines))))

tokenize(codes_text) == extend_codes(splitlines(codes_text), <<>>)

\* The loop skipping a code it has already seen.
RECURSIVE classify_Dedup(_, _, _, _)
classify_Dedup(codes, k, valid_codes, invalid_codes) ==
    IF k > Len(codes)
    THEN [total |-> Len(codes), valid |-> valid_codes,
          invalid |-> invalid_codes, error |-> <<>>]
    ELSE IF \E j \in 1..(k - 1) : codes[j] = codes[k]
    THEN classify_Dedup(codes, k + 1, valid_codes, invalid_codes)
    ELSE IF is_credit_code(codes[k])
    THEN classify_Dedup(codes, k + 1, Append(valid_codes, codes[k]), invalid_codes)
    ELSE classify_Dedup(codes, k + 1, valid_codes, Append(invalid_codes, codes[k]))

\* `for code in codes` from the k-th code on, and the dict returned after it.
RECURSIVE classify(_, _, _, _)
classify(codes, k, valid_codes, invalid_codes) ==
    IF k > Len(codes)
    THEN [total |-> Len(codes), valid |-> valid_codes,
          invalid |-> invalid_codes, error |-> <<>>]
    ELSE IF is_credit_code(codes[k])
    THEN classify(codes, k + 1, Append(valid_codes, codes[k]), invalid_codes)
    ELSE classify(codes, k + 1, valid_codes, Append(invalid_codes, codes[k]))

\* The error message of an input without codes (in the source a Chinese
\* sentence: no valid credit code was found).
NoCodesFound == "no valid credit code found"

\* The returned dict; error |-> <<>> is Python's None, and the dict of an
\* input without codes has no "total".
validate_credit_codes(codes_text) ==
    LET codes == tokenize(codes_text)
    IN  IF codes = <<>>
        THEN [error |-> <<NoCodesFound>>, valid |-> <<>>, invalid |-> <<>>]
        ELSE classify(codes, 1, <<>>, <<>>)

(***************************************************************************)
(* Candidate codes the validator is applied to: a starting code, edited by *)
(* replacing one character, by appending characters or by deleting the     *)
(* last ones.                                                              *)
(***************************************************************************)
\* Valid codes (check characters 5, 0 with a weighted sum that is a multiple
\* of 31, D and T), the code 91110108780232398H, a code with excluded
\* letters, a 17-character prefix and the empty string.
Seed_Valid5 == <<"9", "1", "1", "1", "0", "1", "0", "8", "7", "8", "0", "2", "3", "2", "3", "9", "8", "5">>
KnownCode == <<"9", "1", "1", "1", "0", "1", "0", "8", "7", "8", "0", "2", "3", "2", "3", "9", "8", "H">>
Seed_Valid0 == <<"9", "1", "8", "5", "8", "7", "8", "3", "2", "P", "1", "2", "4", "5", "5", "X", "H", "0">>
Seed_ValidD == <<"1", "2", "1", "0", "0", "0", "0", "0", "4", "0", "0", "0", "0", "0", "6", "2", "4", "D">>
Seed_ValidT == <<"9", "1", "4", "4", "0", "3", "0", "0", "7", "0", "8", "4", "6", "1", "1", "3", "6", "T">>
Seed_Excluded == <<"9", "1", "1", "1", "0", "1", "0", "8", "7", "8", "0", "2", "3", "2", "3", "9", "I", "O">>
Seed_Prefix17 == <<"9", "1", "3", "5", "0", "1", "0", "0", "M", "0", "0", "0", "1", "0", "0", "Y", "4">>
Seed_Empty == <<>>

Seeds ==
    {Seed_Valid5, KnownCode, Seed_Valid0, Seed_ValidD, Seed_ValidT,
     Seed_Excluded, Seed_Prefix17, Seed_Empty}

\* The characters an edit may put into a code: the alphabet, the excluded
\* letters, lower-case letters, non-ASCII digits, and other characters.
Char ==
    PatternClass \cup {"I", "O", "S", "V", "Z"} \cup DOMAIN UpperOfLower
        \cup UnicodeDigits \cup {"U+00DF", "-", " ", "U+000A"}

\* The characters typed into a batch text, and the codes pasted into it.
TextChar == {",", "U+FF0C", " ", "U+000A", "U+000D", "A"}

PasteCodes == {Seed_Valid5}

\* An Optional value: <<>> (not computed yet) or <<v>>.
None == <<>>
Some(v) == <<v>>

NotApplied == valid = None /\ parity = None /\ reason = None

Init ==
    /\ candidate \in Seeds
    /\ orig = candidate
    /\ editPos = 0
    /\ valid = None
    /\ parity = None
    /\ reason = None
    /\ text = <<>>
    /\ typed = 0
    /\ pasted = 0
    /\ results = None

\* The input is edited only before anything is computed from it.  Here one
\* character of the starting code is replaced (editPos: its position,
\* counted from 1).
ReplaceChar ==
    /\ NotApplied
    /\ editPos = 0
    /\ candidate = orig
    /\ \E i \in 1..Len(candidate), x \in Char :
        /\ x # candidate[i]
        /\ candidate' = [candidate EXCEPT ![i] = x]
        /\ editPos' = i
    /\ UNCHANGED <<orig, valid, parity, reason, text, typed, pasted, results>>

\* A character is typed after the input.
AppendChar ==
    /\ NotApplied
    /\ editPos = 0
    /\ Len(candidate) >= Len(orig)
    /\ Len(candidate) < Len(orig) + MaxAppend
    /\ \E x \in Char : candidate' = Append(candidate, x)
    /\ UNCHANGED <<orig, editPos, valid, parity, reason, text, typed, pasted, results>>

\* The last character of the input is deleted.
Backspace ==
    /\ NotApplied
    /\ Len(candidate) > 0
    /\ Len(candidate) > Len(orig) - MaxDelete
    /\ candidate' = SubSeq(candidate, 1, Len(candidate) - 1)
    /\ UNCHANGED <<orig, editPos, valid, parity, reason, text, typed, pasted, results>>

\* is_credit_code(code)
IsCreditCode ==
    /\ valid = None
    /\ valid' = Some(is_credit_code(candidate))
    /\ UNCHANGED <<candidate, orig, editPos, parity, reason, text, typed, pasted, results>>

\* get_parity_bit(code)
GetParityBit ==
    /\ parity = None
    /\ parity' = Some(get_parity_bit(candidate))
    /\ UNCHANGED <<candidate, orig, editPos, valid, reason, text, typed, pasted, results>>

\* get_error_reason(code), which display_results calls for each code that
\* is_credit_code rejected.
GetErrorReason ==
    /\ valid = Some(FALSE)
    /\ reason = None
    /\ reason' = Some(get_error_reason(candidate))
    /\ UNCHANGED <<candidate, orig, editPos, valid, parity, text, typed, pasted, results>>

Next ==
    \/ ReplaceChar
    \/ AppendChar
    \/ Backspace
    \/ IsCreditCode
    \/ GetParityBit
    \/ GetErrorReason

Spec == Init /\ [][Next]_vars

(***************************************************************************)
(* The batch: a text is typed and pasted, then validated.                  *)
(***************************************************************************)
BatchInit ==
    /\ candidate = <<>>
    /\ orig = <<>>
    /\ editPos = 0
    /\ valid = None
    /\ parity = None
    /\ reason = None
    /\ text = <<>>
    /\ typed = 0
    /\ pasted = 0
    /\ results = None

TypeChar ==
    /\ results = None
    /\ typed < MaxTyped
    /\ \E x \in TextChar : text' = Append(text, x)
    /\ typed' = typed + 1
    /\ UNCHANGED <<candidate, orig, editPos, valid, parity, reason, pasted, results>>

PasteCode ==
    /\ results = None
    /\ pasted < MaxPaste
    /\ \E c \in PasteCodes : text' = text \o c
    /\ pasted' = pasted + 1
    /\ UNCHANGED <<candidate, orig, editPos, valid, parity, reason, typed, results>>

\* validate_credit_codes(codes_text)
ValidateCreditCodes ==
    /\ results = None
    /\ results' = Some(validate_credit_codes(text))
    /\ UNCHANGED <<candidate, orig, editPos, valid, parity, reason, text, typed, pasted>>

\* clear_all: the input and the results are emptied.
ClearAll ==
    /\ results # None
    /\ text' = <<>>
    /\ typed' = 0
    /\ pasted' = 0
    /\ results' = None
    /\ UNCHANGED <<candidate, orig, editPos, valid, parity, reason>>

BatchNext ==
    \/ TypeChar
    \/ PasteCode
    \/ ValidateCreditCodes
    \/ ClearAll

BatchSpec == BatchInit /\ [][BatchNext]_vars

(***************************************************************************)
(* Properties.  Definitions used only to state them.                       *)
(***************************************************************************)
ExcludedLetters == {"I", "O", "S", "V", "Z"}

Alphabet == {BASE_CODE[k] : k \in 1..Len(BASE_CODE)}

Chars(s) == {s[k] : k \in 1..Len(s)}

\* The numeric value of an alphabet character: its position in the alphabet.
Value(c) == CHOOSE v \in 0..30 : BASE_CODE[v + 1] = c

\* The weighted sum of the first n characters.
RECURSIVE WeightedSum(_, _)
WeightedSum(s, n) ==
    IF n = 0 THEN 0 ELSE WeightedSum(s, n - 1) + Value(s[n]) * WEIGHT[n]

\* The delimiters of the tokenizer: both commas and any whitespace, every
\* line break included.
Delimiters == {",", "U+FF0C"} \cup Whitespace \cup LineBreaks

Delimiter(c) == c \in Delimiters

\* The maximal runs of non-delimiter characters of t, in order of appearance.
RunStarts(t) ==
    {a \in 1..Len(t) : ~Delimiter(t[a]) /\ (a = 1 \/ Delimiter(t[a - 1]))}

RunEnd(t, a) ==
    CHOOSE b \in a..Len(t) :
        /\ b = Len(t) \/ Delimiter(t[b + 1])
        /\ \A j \in a..b : ~Delimiter(t[j])

MaximalRuns(t) ==
    LET starts == RunStarts(t)
    IN  [k \in 1..Cardinality(starts) |->
            LET a == CHOOSE x \in starts :
                         Cardinality({y \in starts : y <= x}) = k
            IN  SubSeq(t, a, RunEnd(t, a))]

\* One character of a code accepted by is_credit_code was replaced, at one
\* of the first 17 positions.
CorruptedValid ==
    /\ editPos \in 1..17
    /\ Len(candidate) = Len(orig)
    /\ is_credit_code(orig)

\* Everything the validator computes from the candidate has been computed.
Diagnosed ==
    /\ valid # None
    /\ parity # None
    /\ valid = Some(FALSE) => reason # None

\* C1 (as stated): 91110108780232398H is classified Valid.
C1_KnownCodeValid ==
    (candidate = KnownCode /\ Diagnosed) => valid = Some(TRUE)

\* C1 (amended): 91110108780232398H passes the structural check and is
\* rejected: the check character computed from its first 17 characters is
\* '5' (index 5), not 'H', and the diagnosis is a checksum error expecting '5'.
C1_KnownCodeRejected ==
    candidate = KnownCode =>
        /\ valid # None => valid = Some(FALSE)
        /\ parity # None => parity = Some(5)
        /\ reason # None => reason = Some(Reason("checksum", {}, "5"))

C1_Witness ==
    /\ candidate = KnownCode
    /\ valid = Some(FALSE)
    /\ parity = Some(5)
    /\ reason = Some(Reason("checksum", {}, "5"))

\* No two alphabet values give the same weighted term at any position: the
\* reason a replacement within the alphabet always changes the check
\* character, for every code and not only the explored ones.
WeightsSeparateValues ==
    \A i \in 1..17 : \A a, b \in 0..30 :
        a > b => ((a - b) * WEIGHT[i]) % 31 # 0

C3_Partition ==
    (results # None /\ tokenize(text) # <<>>) =>
        LET r == results[1]
            codes == tokenize(text)
            Accepted(t) == is_credit_code(t)
            Rejected(t) == ~is_credit_code(t)
        IN  /\ r.total = Len(r.valid) + Len(r.invalid)
            /\ r.total = Len(codes)
            /\ r.valid = SelectSeq(codes, Accepted)
            /\ r.invalid = SelectSeq(codes, Rejected)

C3_Witness ==
    /\ results # None
    /\ tokenize(text) # <<>>
    /\ Len(results[1].valid) = 2
    /\ results[1].valid[1] = results[1].valid[2]
    /\ Len(results[1].invalid) = 1
    /\ results[1].total = 3

\* C4: the tokens are the maximal runs of non-delimiter characters of the
\* whole text, in order of appearance; a text without such a run has no
\* token and is answered with the error.
C4_TokensAreMaximalRuns ==
    results # None =>
        LET codes == tokenize(text)
        IN  /\ codes = MaximalRuns(text)
            /\ \A k \in 1..Len(codes) :
                /\ codes[k] # <<>>
                /\ \A c \in Chars(codes[k]) : ~Delimiter(c)
            /\ RunStarts(text) = {} <=> results[1].error = <<NoCodesFound>>
            /\ RunStarts(text) # {} => results[1].total = Len(codes)

C4_Witness ==
    /\ results # None
    /\ Len(text) > 0
    /\ Delimiter(text[1])
    /\ Delimiter(text[Len(text)])
    /\ "U+FF0C" \in Chars(text)
    /\ Len(tokenize(text)) = 2
    /\ tokenize(text)[1] = tokenize(text)[2]
    /\ results[1].total = 2

\* C5: lower-casing the 18th character (a letter) of a Valid code leaves it
\* Valid.
C5_LowerCheckCharValid ==
    ( /\ editPos = 18
      /\ Len(candidate) = 18
      /\ is_credit_code(orig)
      /\ candidate[18] \in DOMAIN UpperOfLower
      /\ UpperOfLower[candidate[18]] = orig[18]
      /\ Diagnosed ) => valid = Some(TRUE)

\* C6: for a string that passes the structural check exactly one alphabet
\* symbol in the last position makes it Valid, and with another alphabet
\* symbol there it is rejected with a checksum error that names that one
\* symbol.
C6_OneCheckCharacter ==
    (is_credit_code_simple(candidate) /\ Diagnosed) =>
        /\ Cardinality({c \in Alphabet :
               is_credit_code([candidate EXCEPT ![18] = c])}) = 1
        /\ valid = Some(FALSE) =>
               /\ reason[1].kind = "checksum"
               /\ reason[1].expected # candidate[18]
               /\ is_credit_code([candidate EXCEPT ![18] = reason[1].expected])

\* C7: an 18-character string with one of I, O, S, V, Z is rejected with
\* the illegal-character reason, which lists exactly the distinct
\* upper-cased characters outside the alphabet: the excluded letters
\* themselves when nothing else is outside the alphabet.
C7_ExcludedLetterReason ==
    (Len(candidate) = 18 /\ Chars(candidate) \cap ExcludedLetters # {}) =>
        /\ valid # None => valid = Some(FALSE)
        /\ reason # None =>
            /\ reason[1].kind = "illegal"
            /\ reason[1].chars = Chars(upper(candidate)) \ Alphabet
            /\ Chars(candidate) \subseteq Alphabet \cup ExcludedLetters =>
                   reason[1].chars = Chars(candidate) \cap ExcludedLetters

C7_Witness ==
    /\ Len(candidate) = 18
    /\ valid = Some(FALSE)
    /\ reason # None
    /\ reason[1].kind = "illegal"
    /\ reason[1].chars = {"I", "O", "Z"}

\* C8: a string whose length is not 18 is rejected and diagnosed with the
\* length reason, whatever it contains.
C8_LengthFirst ==
    Len(candidate) # 18 =>
        /\ valid # None => valid = Some(FALSE)
        /\ reason # None => reason = Some(Reason("length", {}, ""))

C8_Witness ==
    /\ Len(candidate) = 17
    /\ Chars(candidate) \cap ExcludedLetters # {}
    /\ valid = Some(FALSE)
    /\ reason = Some(Reason("length", {}, ""))

\* C9: when the first 17 characters are in the alphabet, get_parity_bit is
\* (31 - sum mod 31) mod 31 for their weighted sum: in 0..30, and 0 exactly
\* when the sum is a multiple of 31.
C9_ParityFolded ==
    ( /\ Len(candidate) >= 17
      /\ \A k \in 1..17 : candidate[k] \in Alphabet
      /\ parity # None ) =>
        LET sum == WeightedSum(candidate, 17)
        IN  /\ parity[1] = (31 - (sum % 31)) % 31
            /\ parity[1] \in 0..30
            /\ parity[1] = 0 <=> sum % 31 = 0

C9_Witness ==
    /\ Len(candidate) >= 17
    /\ \A k \in 1..17 : candidate[k] \in Alphabet
    /\ WeightedSum(candidate, 17) > 0
    /\ WeightedSum(candidate, 17) % 31 = 0
    /\ parity = Some(0)

\* C10: a string the structural check accepts has ASCII digits at positions
\* 2-7 and its first 17 characters in the alphabet, so get_parity_bit is not
\* -1 for it and get_error_reason does not answer "unknown error".
C10_PatternAgreesWithAlphabet ==
    (is_credit_code_simple(candidate) /\ Diagnosed) =>
        /\ \A k \in 3..8 : candidate[k] \in Digits
        /\ \A k \in 1..17 : candidate[k] \in Alphabet
        /\ parity[1] # -1
        /\ valid = Some(FALSE) => reason[1].kind # "unknown"

====
